---- MODULE Spec2Model ----
(***************************************************************************)
(* Model of yiigo's MySQL helper (src/mysql.go): the statement builders,   *)
(* the single-statement operations, and DoTransactions.                    *)
(*                                                                         *)
(* A SQL string is a sequence of tokens; fmt.Sprintf and strings.Join are  *)
(* concatenation of token sequences.  A Go map (yiigo.X) is a function     *)
(* whose DOMAIN is the set of keys present; `v, ok := m[k]` is             *)
(* `k \in DOMAIN m`.  The order in which `range` visits a map is chosen    *)
(* nondeterministically.                                                   *)
(***************************************************************************)
EXTENDS Integers, Sequences, FiniteSets, TLC

VARIABLES pc,       \* "idle", "built", "done", "tx", "returned", "panicked"
          op,       \* the function called
          query,    \* condition map argument
          data,     \* data map argument
          iter,     \* order in which range visited the data map / the batch
          columns,  \* buildBatchInsert's column list
          rows,     \* buildBatchInsert's row list
          tables,   \* the variadic table override of buildInsert / buildBatchInsert
          sql,      \* SQL returned by the builder
          binds,    \* bind list returned by the builder
          execs,    \* statements handed to the driver, in order
          log,      \* LogError calls, in order
          ret,      \* error returned to the caller
          batch,    \* DoTransactions' operations map
          todo,     \* batch keys range has not visited yet
          cur,      \* batch key of the current loop iteration
          err,      \* DoTransactions' local err
          tx,       \* "none", "open", "committed", "commitFailed", "rolledback"
          staged,   \* effects executed inside the open transaction
          visible   \* effects visible in the database

vars == <<pc, op, query, data, iter, columns, rows, tables, sql, binds, execs, log,
          ret, batch, todo, cur, err, tx, staged, visible>>

-----------------------------------------------------------------------------
(* Bounds of the model *)

MaxBinds == 2
MaxSeq == 2
MaxJoin == 2
MaxRows == 2
MaxCols == 2
MaxBatch == 3

-----------------------------------------------------------------------------
(* Values *)

Nil == "nil"
EmptyMap == [k \in {} |-> 0]
Entry(k, v) == [x \in {k} |-> v]

\* m.Table and the configured prefix of the handle
Table == "users"
Prefix == "p_"

\* interface{} bind values: a scalar, a slice (for IN), or nil
Scalar(n) == [kind |-> "scalar", items |-> <<n>>]
Slice(s) == [kind |-> "slice", items |-> s]
NilValue == [kind |-> "nil", items |-> <<>>]

\* Expr(expression, args...): an *expr stored as a data-map value
Expr(expression, args) == [expr |-> expression, args |-> args]

\* the type assertion v.(*expr)
IsExpr(v) == "expr" \in DOMAIN v

Positions(s, t) == {i \in 1..Len(s) : s[i] = t}
Occurrences(s, t) == Cardinality(Positions(s, t))
FirstPosition(s, t) == IF Positions(s, t) = {} THEN Len(s) + 1
                       ELSE CHOOSE i \in Positions(s, t) : \A j \in Positions(s, t) : i <= j

RECURSIVE Join(_, _)
Join(parts, sep) ==
    IF parts = <<>> THEN <<>>
    ELSE IF Len(parts) = 1 THEN Head(parts)
    ELSE Head(parts) \o <<sep>> \o Join(Tail(parts), sep)

RECURSIVE Flatten(_)
Flatten(parts) ==
    IF parts = <<>> THEN <<>> ELSE Head(parts) \o Flatten(Tail(parts))

Perms(S) == {p \in [1..Cardinality(S) -> S] : \A x \in S : \E i \in DOMAIN p : p[i] = x}

-----------------------------------------------------------------------------
(* Statement builders *)

RECURSIVE InsertLoop(_, _, _)
InsertLoop(d, ord, acc) ==
    IF ord = <<>> THEN acc
    ELSE InsertLoop(d, Tail(ord),
                    [columns |-> Append(acc.columns, <<Head(ord)>>),
                     placeholders |-> Append(acc.placeholders, <<"?">>),
                     binds |-> Append(acc.binds, d[Head(ord)])])

buildInsert(d, ord, tbls) ==
    LET tbl == IF tbls = <<>> THEN Table ELSE tbls[1]
        r == InsertLoop(d, ord, [columns |-> <<>>, placeholders |-> <<>>, binds |-> <<>>])
    IN  [sql |-> <<"INSERT INTO", Prefix \o tbl, "(">> \o Join(r.columns, ",")
                 \o <<")", "VALUES", "(">> \o Join(r.placeholders, ",") \o <<")">>,
         binds |-> r.binds]

\* v[column]: the zero value (nil) when the row lacks the key
RowValueMissingSkipped(row, column) ==
    IF column \in DOMAIN row THEN <<row[column]>> ELSE <<>>

RowValue(row, column) ==
    IF column \in DOMAIN row THEN <<row[column]>> ELSE <<NilValue>>

RECURSIVE ColumnLoop(_, _, _)
ColumnLoop(row, cols, acc) ==
    IF cols = <<>> THEN acc
    ELSE ColumnLoop(row, Tail(cols),
                    [binds |-> acc.binds \o RowValue(row, Head(cols)),
                     bindvars |-> Append(acc.bindvars, <<"?">>)])

RECURSIVE RowLoop(_, _, _)
RowLoop(rs, cols, acc) ==
    IF rs = <<>> THEN acc
    ELSE LET r == ColumnLoop(Head(rs), cols, [binds |-> acc.binds, bindvars |-> <<>>])
         IN  RowLoop(Tail(rs), cols,
                     [binds |-> r.binds,
                      placeholders |-> Append(acc.placeholders,
                                              <<"(">> \o Join(r.bindvars, ",") \o <<")">>)])

buildBatchInsert(cols, rs, tbls) ==
    LET tbl == IF tbls = <<>> THEN Table ELSE tbls[1]
        r == RowLoop(rs, cols, [binds |-> <<>>, placeholders |-> <<>>])
        names == [i \in 1..Len(cols) |-> <<cols[i]>>]
    IN  [sql |-> <<"INSERT INTO", Prefix \o tbl, "(">> \o Join(names, ",")
                 \o <<")", "VALUES">> \o Join(r.placeholders, ","),
         binds |-> r.binds]

RECURSIVE SetLoop(_, _, _)
SetLoop(d, ord, acc) ==
    IF ord = <<>> THEN acc
    ELSE LET k == Head(ord)
             v == d[k]
         IN  IF IsExpr(v)
             THEN SetLoop(d, Tail(ord), [set |-> Append(acc.set, <<k, "=">> \o v.expr),
                                         binds |-> acc.binds \o v.args])
             ELSE SetLoop(d, Tail(ord), [set |-> Append(acc.set, <<k, "=", "?">>),
                                         binds |-> Append(acc.binds, v)])

\* binds = append(binds, query["binds"]...) after the SET loop
AppendQueryBindsFirst(setBinds, q) ==
    IF "binds" \in DOMAIN q THEN q.binds \o setBinds ELSE setBinds

AppendQueryBinds(setBinds, q) ==
    IF "binds" \in DOMAIN q THEN setBinds \o q.binds ELSE setBinds

buildUpdate(q, d, ord) ==
    LET tbl == IF "table" \in DOMAIN q THEN q.table ELSE Table
        r == SetLoop(d, ord, [set |-> <<>>, binds |-> <<>>])
        c1 == <<"UPDATE", Prefix \o tbl>>
        c2 == <<"SET">> \o Join(r.set, ",")
        c3 == IF "where" \in DOMAIN q THEN <<"WHERE">> \o q.where ELSE <<>>
    IN  [sql |-> c1 \o c2 \o c3, binds |-> AppendQueryBinds(r.binds, q)]

FromClauseAlwaysAliased(q, tbl) ==
    <<"FROM", Prefix \o tbl, "AS", "a">> \o (IF "join" \in DOMAIN q THEN q.join ELSE <<>>)

FromClause(q, tbl) ==
    IF "join" \in DOMAIN q
    THEN <<"FROM", Prefix \o tbl, "AS", "a">> \o q.join
    ELSE <<"FROM", Prefix \o tbl>>

buildQuery(q) ==
    LET tbl == IF "table" \in DOMAIN q THEN q.table ELSE Table
        c1 == IF "select" \in DOMAIN q THEN <<"SELECT", q.select>> ELSE <<"SELECT", "*">>
        c2 == FromClause(q, tbl)
        c3 == IF "where" \in DOMAIN q THEN <<"WHERE">> \o q.where ELSE <<>>
        c4 == IF "group" \in DOMAIN q THEN <<"GROUP BY", q.group>> ELSE <<>>
        c5 == IF "order" \in DOMAIN q THEN <<"ORDER BY", q.order>> ELSE <<>>
        c6 == IF "offset" \in DOMAIN q THEN <<"OFFSET", ToString(q.offset)>> ELSE <<>>
        c7 == IF "limit" \in DOMAIN q THEN <<"LIMIT", ToString(q.limit)>> ELSE <<>>
    IN  [sql |-> c1 \o c2 \o c3 \o c4 \o c5 \o c6 \o c7,
         binds |-> IF "binds" \in DOMAIN q THEN q.binds ELSE <<>>]

buildDelete(q) ==
    LET tbl == IF "table" \in DOMAIN q THEN q.table ELSE Table
        c1 == <<"DELETE FROM", Prefix \o tbl>>
        c2 == IF "where" \in DOMAIN q THEN <<"WHERE">> \o q.where ELSE <<>>
    IN  [sql |-> c1 \o c2, binds |-> IF "binds" \in DOMAIN q THEN q.binds ELSE <<>>]

-----------------------------------------------------------------------------
(* Inputs *)

SeqsUpTo(S, n) == UNION {[1..k -> S] : k \in 0..n}

OptOf(S) == {<<>>} \cup {<<v>> : v \in S}
FromOpt(k, o) == IF o = <<>> THEN EmptyMap ELSE Entry(k, o[1])

BindValues == {Scalar(7)} \cup {Slice([i \in 1..n |-> 40 + i]) : n \in 1..MaxSeq}
BindLists == SeqsUpTo(BindValues, MaxBinds)

JoinLists == {[i \in 1..n |-> "JOIN t" \o ToString(i) \o " ON a.id = t" \o ToString(i) \o ".aid"] :
              n \in 0..MaxJoin}

TableOverrides == {<<>>, <<"orders">>}

\* condition maps over the whole clause vocabulary
QueryMaps ==
    {FromOpt("select", s) @@ FromOpt("table", t) @@ FromOpt("join", j) @@ FromOpt("where", w)
       @@ FromOpt("group", g) @@ FromOpt("order", o) @@ FromOpt("offset", f)
       @@ FromOpt("limit", l) @@ FromOpt("binds", b) :
     s \in OptOf({"id,name"}), t \in OptOf({"orders"}), j \in OptOf(JoinLists),
     w \in OptOf({<<"id", "=", "?">>}), g \in OptOf({"kind"}), o \in OptOf({"id DESC"}),
     f \in OptOf({20}), l \in OptOf({10}), b \in OptOf(BindLists)}

\* condition maps of an update or a delete
WriteQueryMaps ==
    {FromOpt("table", t) @@ FromOpt("where", w) @@ FromOpt("binds", b) :
     t \in OptOf({"orders"}), w \in OptOf({<<"id", "IN", "(", "?", ")">>}), b \in OptOf(BindLists)}

DataColumns == {"price", "qty"}

PriceValues == {Scalar(1), Expr(<<"price +", "?">>, <<Scalar(2)>>), Expr(<<"NOW()">>, <<>>),
                Expr(<<"DEFAULT">>, <<Scalar(9)>>)}
QtyValues == {Scalar(5), Expr(<<"?", "*", "?">>, <<Scalar(6), Scalar(8)>>), Slice(<<3, 4>>)}

DataMaps ==
    {FromOpt("price", p) @@ FromOpt("qty", q) : p \in OptOf(PriceValues), q \in OptOf(QtyValues)}

RowKeys == {"a", "b", "x"}
ColumnNames == {"a", "b"}
KeyCode(k) == CASE k = "a" -> 1 [] k = "b" -> 2 [] OTHER -> 3

\* a row list: row i holds, at each key it has, a value distinct from every other
RowsOf(doms) == [i \in 1..Len(doms) |-> [k \in doms[i] |-> Scalar(10 * i + KeyCode(k))]]
RowLists == {RowsOf(doms) : doms \in SeqsUpTo(SUBSET RowKeys, MaxRows)}
ColumnLists == SeqsUpTo(ColumnNames, MaxCols)

-----------------------------------------------------------------------------
(* The builders called on their own *)

\* before a call: InitDB has registered the handle, so getDB returns it; the
\* database shows none of the effects a batch is about to make
Idle ==
    /\ pc = "idle" /\ op = "none"
    /\ query = EmptyMap /\ data = EmptyMap /\ iter = <<>>
    /\ columns = <<>> /\ rows = <<>> /\ tables = <<>>
    /\ sql = <<>> /\ binds = <<>>
    /\ execs = <<>> /\ log = <<>> /\ ret = Nil
    /\ batch = EmptyMap /\ todo = {} /\ cur = "none" /\ err = Nil
    /\ tx = "none" /\ staged = {} /\ visible = {}

Init == Idle

Built(name, r) ==
    /\ pc' = "built" /\ op' = name
    /\ sql' = r.sql /\ binds' = r.binds
    /\ UNCHANGED <<execs, log, ret, batch, todo, cur, err, tx, staged, visible>>

BuildInsert ==
    /\ pc = "idle"
    /\ \E d \in DataMaps, t \in TableOverrides :
         \E ord \in Perms(DOMAIN d) :
            /\ data' = d /\ iter' = ord /\ tables' = t
            /\ Built("buildInsert", buildInsert(d, ord, t))
    /\ UNCHANGED <<query, columns, rows>>

BuildBatchInsert ==
    /\ pc = "idle"
    /\ \E cols \in ColumnLists, rs \in RowLists, t \in TableOverrides :
            /\ columns' = cols /\ rows' = rs /\ tables' = t
            /\ Built("buildBatchInsert", buildBatchInsert(cols, rs, t))
    /\ UNCHANGED <<query, data, iter>>

BuildUpdate ==
    /\ pc = "idle"
    /\ \E q \in WriteQueryMaps, d \in DataMaps :
         \E ord \in Perms(DOMAIN d) :
            /\ query' = q /\ data' = d /\ iter' = ord
            /\ Built("buildUpdate", buildUpdate(q, d, ord))
    /\ UNCHANGED <<columns, rows, tables>>

BuildQuery ==
    /\ pc = "idle"
    /\ \E q \in QueryMaps :
            /\ query' = q
            /\ Built("buildQuery", buildQuery(q))
    /\ UNCHANGED <<data, iter, columns, rows, tables>>

BuildDelete ==
    /\ pc = "idle"
    /\ \E q \in WriteQueryMaps :
            /\ query' = q
            /\ Built("buildDelete", buildDelete(q))
    /\ UNCHANGED <<data, iter, columns, rows, tables>>

NextBuild == BuildInsert \/ BuildBatchInsert \/ BuildUpdate \/ BuildQuery \/ BuildDelete

SpecBuild == Init /\ [][NextBuild]_vars

-----------------------------------------------------------------------------
(* Placeholder expansion: sqlx.In(sql, binds...) *)

Placeholders(n) == Join([i \in 1..n |-> <<"?">>], ",")
Elements(a) == [i \in 1..Len(a.items) |-> Scalar(a.items[i])]

RECURSIVE In(_, _)
In(s, args) ==
    IF s = <<>> THEN [sql |-> <<>>, args |-> args]
    ELSE IF Head(s) = "?" /\ args # <<>>
         THEN LET a == Head(args)
                  rest == In(Tail(s), Tail(args))
              IN  IF a.kind = "slice"
                  THEN [sql |-> Placeholders(Len(a.items)) \o rest.sql,
                        args |-> Elements(a) \o rest.args]
                  ELSE [sql |-> <<"?">> \o rest.sql, args |-> <<a>> \o rest.args]
         ELSE LET rest == In(Tail(s), args)
              IN  [sql |-> <<Head(s)>> \o rest.sql, args |-> rest.args]

\* `_sql, args, _ := sqlx.In(sql, binds...)` between the builder and the driver
Expanded(b) ==
    LET r == In(b.sql, b.binds)
    IN  [sql |-> b.sql, binds |-> b.binds, xsql |-> r.sql, xargs |-> r.args, nIn |-> 1]

\* the built statement handed to the driver as it is
Direct(b) == [sql |-> b.sql, binds |-> b.binds, xsql |-> b.sql, xargs |-> b.binds, nIn |-> 0]

-----------------------------------------------------------------------------
(* The statement each operation hands to the driver *)

InsertStatement(d, ord) == Direct(buildInsert(d, ord, <<>>))

BatchInsertStatement(cols, rs) == Direct(buildBatchInsert(cols, rs, <<>>))

UpdateStatementUnexpanded(q, d, ord) == Direct(buildUpdate(q, d, ord))

UpdateStatement(q, d, ord) == Expanded(buildUpdate(q, d, ord))

DeleteStatement(q) == Expanded(buildDelete(q))

\* query["select"] = "COUNT(*)" or fmt.Sprintf("COUNT(%s)", columns[0])
CountQuery(q, cols) ==
    Entry("select", IF Len(cols) > 0 THEN "COUNT(" \o cols[1] \o ")" ELSE "COUNT(*)") @@ q

CountStatement(q, cols) == Expanded(buildQuery(CountQuery(q, cols)))

\* query["limit"] = 1
FindOneQuery(q) == Entry("limit", 1) @@ q

FindOneStatement(q) == Expanded(buildQuery(FindOneQuery(q)))

FindStatement(q) == Expanded(buildQuery(q))

RECURSIVE StringsJoin(_, _)
StringsJoin(strs, sep) ==
    IF strs = <<>> THEN ""
    ELSE IF Len(strs) = 1 THEN strs[1]
    ELSE strs[1] \o sep \o StringsJoin(Tail(strs), sep)

FindAllQuery(cols) ==
    IF Len(cols) > 0 THEN Entry("select", StringsJoin(cols, ",")) ELSE EmptyMap

FindAllStatement(cols) == Direct(buildQuery(FindAllQuery(cols)))

-----------------------------------------------------------------------------
(* Driver outcomes and logging *)

ErrNoRows == "sql: no rows in result set"
ErrDriver == "Error 1146: Table doesn't exist"
ErrBegin == "driver: bad connection"
ErrCommit == "commit: bad connection"
Outcomes == {Nil, ErrNoRows, ErrDriver}

\* LogError("[MySQL] <tag> Error: ", err.Error())
LogError(tag, msg) == [tag |-> tag, msg |-> msg]

\* write paths: if err != nil { LogError(...); return 0, err }
WriteLog(tag, e) == IF e # Nil THEN <<LogError(tag, e)>> ELSE <<>>

\* read paths: logged unless the message is the no-rows message
ReadLog(tag, e) == IF e # Nil /\ e # ErrNoRows THEN <<LogError(tag, e)>> ELSE <<>>

\* Count returns err without logging
CountLog(e) == <<>>

-----------------------------------------------------------------------------
(* Inputs of the operations *)

\* a WHERE fragment with one placeholder per bind
WhereOf(b) == Join([i \in 1..Len(b) |-> <<"c" \o ToString(i), "IN", "(", "?", ")">>], "AND")

Conditions(b) == IF b = <<>> THEN EmptyMap ELSE Entry("where", WhereOf(b)) @@ Entry("binds", b)

OpWriteQueries == {FromOpt("table", t) @@ Conditions(b) : t \in OptOf({"orders"}), b \in BindLists}

OpReadQueries ==
    {FromOpt("table", t) @@ FromOpt("select", s) @@ FromOpt("limit", l) @@ Conditions(b) :
     t \in OptOf({"orders"}), s \in OptOf({"id,name"}), l \in OptOf({10}), b \in BindLists}

\* data maps whose expressions have as many placeholders as args
OpDataMaps ==
    {d \in DataMaps :
       \A k \in DOMAIN d : IsExpr(d[k]) => Occurrences(d[k].expr, "?") = Len(d[k].args)}

\* data maps of an insert: plain values only
OpInsertMaps == {d \in DataMaps : \A k \in DOMAIN d : ~IsExpr(d[k])}

CountColumns == {<<>>, <<"id">>}
FindAllColumns == {<<>>, <<"id">>, <<"id", "name">>}

-----------------------------------------------------------------------------
(* The single-statement operations *)

Done(name, st, e, logged) ==
    /\ pc' = "done" /\ op' = name
    /\ sql' = st.sql /\ binds' = st.binds
    /\ execs' = <<st @@ [tag |-> name, err |-> e]>>
    /\ log' = logged
    /\ ret' = e
    /\ UNCHANGED <<batch, todo, cur, err, tx, staged, visible>>

Insert ==
    /\ pc = "idle"
    /\ \E d \in OpInsertMaps, e \in Outcomes :
         \E ord \in Perms(DOMAIN d) :
            /\ data' = d /\ iter' = ord
            /\ Done("Insert", InsertStatement(d, ord), e, WriteLog("Insert", e))
    /\ UNCHANGED <<query, columns, rows, tables>>

BatchInsert ==
    /\ pc = "idle"
    /\ \E cols \in ColumnLists, rs \in RowLists, e \in Outcomes :
            /\ columns' = cols /\ rows' = rs
            /\ Done("BatchInsert", BatchInsertStatement(cols, rs), e, WriteLog("BatchInsert", e))
    /\ UNCHANGED <<query, data, iter, tables>>

Update ==
    /\ pc = "idle"
    /\ \E q \in OpWriteQueries, d \in OpDataMaps, e \in Outcomes :
         \E ord \in Perms(DOMAIN d) :
            /\ query' = q /\ data' = d /\ iter' = ord
            /\ Done("Update", UpdateStatement(q, d, ord), e, WriteLog("Update", e))
    /\ UNCHANGED <<columns, rows, tables>>

Delete ==
    /\ pc = "idle"
    /\ \E q \in OpWriteQueries, e \in Outcomes :
            /\ query' = q
            /\ Done("Delete", DeleteStatement(q), e, WriteLog("Delete", e))
    /\ UNCHANGED <<data, iter, columns, rows, tables>>

Count ==
    /\ pc = "idle"
    /\ \E q \in OpReadQueries, cols \in CountColumns, e \in Outcomes :
            /\ query' = CountQuery(q, cols) /\ columns' = cols
            /\ Done("Count", CountStatement(q, cols), e, CountLog(e))
    /\ UNCHANGED <<data, iter, rows, tables>>

FindOne ==
    /\ pc = "idle"
    /\ \E q \in OpReadQueries, e \in Outcomes :
            /\ query' = FindOneQuery(q)
            /\ Done("FindOne", FindOneStatement(q), e, ReadLog("FindOne", e))
    /\ UNCHANGED <<data, iter, columns, rows, tables>>

Find ==
    /\ pc = "idle"
    /\ \E q \in OpReadQueries, e \in Outcomes :
            /\ query' = q
            /\ Done("Find", FindStatement(q), e, ReadLog("Find", e))
    /\ UNCHANGED <<data, iter, columns, rows, tables>>

FindAll ==
    /\ pc = "idle"
    /\ \E cols \in FindAllColumns, e \in Outcomes :
            /\ query' = FindAllQuery(cols) /\ columns' = cols
            /\ Done("FindAll", FindAllStatement(cols), e, ReadLog("FindAll", e))
    /\ UNCHANGED <<data, iter, rows, tables>>

-----------------------------------------------------------------------------
(* DoTransactions *)

KnownTags == {"insert", "batchInsert", "update", "delete"}
Tags == KnownTags \cup {"upsert"}

\* the payload a caller stores under a tag, well typed
PayloadOf(tag) ==
    CASE tag = "insert" ->
           [table |-> "orders", data |-> Entry("price", Scalar(1))]
      [] tag = "batchInsert" ->
           [table |-> "orders", columns |-> <<"a", "b">>, data |-> RowsOf(<<{"a", "b"}>>)]
      [] tag = "update" ->
           [query |-> [table |-> "orders", where |-> <<"id", "IN", "(", "?", ")">>,
                       binds |-> <<Slice(<<41, 42>>)>>],
            data |-> Entry("qty", Expr(<<"qty -", "?">>, <<Scalar(1)>>))]
      [] tag = "delete" ->
           [table |-> "orders", where |-> <<"id", "IN", "(", "?", ")">>,
            binds |-> <<Slice(<<41, 42>>), Scalar(7)>>]
      [] OTHER -> [table |-> "orders"]

\* a batch value: isX is whether value.(X) succeeds, fieldsOk whether the type
\* assertions on the payload's fields do
PayloadVariants(tag) ==
    {[isX |-> TRUE, fieldsOk |-> TRUE, opt |-> PayloadOf(tag)],
     [isX |-> FALSE, fieldsOk |-> TRUE, opt |-> EmptyMap]}
    \cup (IF tag \in KnownTags
          THEN {[isX |-> TRUE, fieldsOk |-> FALSE, opt |-> PayloadOf(tag)]}
          ELSE {})

Batches ==
    UNION {{b \in [S -> UNION {PayloadVariants(t) : t \in S}] :
              \A t \in S : b[t] \in PayloadVariants(t)} :
           S \in {T \in SUBSET Tags : Cardinality(T) <= MaxBatch}}

TableOf(opt) == IF "table" \in DOMAIN opt THEN <<opt.table>> ELSE <<>>
Field(opt, k, default) == IF k \in DOMAIN opt THEN opt[k] ELSE default

\* the order range visits a data map of one column in
OnlyOrder(d) == CHOOSE ord \in Perms(DOMAIN d) : TRUE

\* the statement a batch entry executes inside the transaction
TxStatement(tag, opt) ==
    CASE tag = "insert" ->
           Direct(buildInsert(Field(opt, "data", EmptyMap),
                              OnlyOrder(Field(opt, "data", EmptyMap)), TableOf(opt)))
      [] tag = "batchInsert" ->
           Direct(buildBatchInsert(Field(opt, "columns", <<>>), Field(opt, "data", <<>>),
                                   TableOf(opt)))
      [] tag = "update" ->
           Expanded(buildUpdate(Field(opt, "query", EmptyMap), Field(opt, "data", EmptyMap),
                                OnlyOrder(Field(opt, "data", EmptyMap))))
      [] OTHER -> Expanded(buildDelete(opt))

\* the driver error of a failing statement
ErrOf(tag) == "Error 1064: " \o tag

\* `if err != nil { break }` after the switch
LoopNeverBreaks(e) == FALSE

LoopBreaks(e) == e # Nil

\* `if err != nil { tx.Rollback(); ... }` after the loop
RollsBack(e) == e # Nil

TxBegin ==
    /\ pc = "idle"
    /\ \E b \in Batches :
         /\ batch' = b /\ todo' = DOMAIN b
    /\ pc' = "tx" /\ op' = "DoTransactions"
    /\ tx' = "open" /\ err' = Nil
    /\ UNCHANGED <<query, data, iter, columns, rows, tables, sql, binds, execs, log, ret,
                   cur, staged, visible>>

TxBeginFails ==
    /\ pc = "idle"
    /\ \E b \in Batches : batch' = b
    /\ pc' = "returned" /\ op' = "DoTransactions"
    /\ err' = ErrBegin
    /\ log' = Append(log, LogError("DoTransactions", ErrBegin))
    /\ ret' = ErrBegin
    /\ UNCHANGED <<query, data, iter, columns, rows, tables, sql, binds, execs, todo, cur,
                   tx, staged, visible>>

\* one iteration of `for key, value := range operations`
TxIterate ==
    /\ pc = "tx" /\ todo # {} /\ ~LoopBreaks(err)
    /\ \E key \in todo :
         /\ cur' = key /\ todo' = todo \ {key} /\ iter' = Append(iter, key)
         /\ IF ~batch[key].isX
            THEN \* opt := value.(X) panics
                 /\ pc' = "panicked"
                 /\ UNCHANGED <<sql, binds, execs, err, staged>>
            ELSE IF key \notin KnownTags
            THEN \* no case of the switch matches
                 /\ pc' = "tx"
                 /\ UNCHANGED <<sql, binds, execs, err, staged>>
            ELSE IF ~batch[key].fieldsOk
            THEN \* a type assertion on a field of the payload panics
                 /\ pc' = "panicked"
                 /\ UNCHANGED <<sql, binds, execs, err, staged>>
            ELSE \E e \in {Nil, ErrOf(key)} :
                   LET st == TxStatement(key, batch[key].opt)
                   IN  /\ pc' = "tx"
                       /\ sql' = st.sql /\ binds' = st.binds
                       /\ execs' = Append(execs, st @@ [tag |-> key, err |-> e])
                       /\ err' = e
                       /\ staged' = IF e = Nil THEN staged \cup {key} ELSE staged
    /\ UNCHANGED <<op, query, data, columns, rows, tables, log, ret, batch, tx, visible>>

TxRollback ==
    /\ pc = "tx" /\ (todo = {} \/ LoopBreaks(err))
    /\ RollsBack(err)
    /\ tx' = "rolledback" /\ staged' = {}
    /\ log' = Append(log, LogError("DoTransactions", err))
    /\ ret' = err
    /\ pc' = "returned"
    /\ UNCHANGED <<op, query, data, iter, columns, rows, tables, sql, binds, execs, batch,
                   todo, cur, err, visible>>

\* tx.Commit(), its error dropped; return nil
TxCommit ==
    /\ pc = "tx" /\ (todo = {} \/ LoopBreaks(err))
    /\ ~RollsBack(err)
    /\ \E e \in {Nil, ErrCommit} :
         /\ tx' = IF e = Nil THEN "committed" ELSE "commitFailed"
         /\ visible' = IF e = Nil THEN visible \cup staged ELSE visible
    /\ staged' = {}
    /\ ret' = Nil
    /\ pc' = "returned"
    /\ UNCHANGED <<op, query, data, iter, columns, rows, tables, sql, binds, execs, log,
                   batch, todo, cur, err>>

Next ==
    \/ Insert \/ BatchInsert \/ Update \/ Delete
    \/ Count \/ FindOne \/ Find \/ FindAll
    \/ TxBegin \/ TxBeginFails \/ TxIterate \/ TxRollback \/ TxCommit

Spec == Init /\ [][Next]_vars

-----------------------------------------------------------------------------
(* Helpers of the properties *)

Keywords == <<"SELECT", "FROM", "WHERE", "GROUP BY", "ORDER BY", "OFFSET", "LIMIT">>
KeywordSet == {Keywords[i] : i \in DOMAIN Keywords}

\* the tokens that follow keyword kw up to the next keyword
Segment(s, kw) ==
    LET i == FirstPosition(s, kw)
        later == {j \in (i + 1)..Len(s) : s[j] \in KeywordSet}
        stop == IF later = {} THEN Len(s) + 1
                ELSE CHOOSE j \in later : \A k \in later : j <= k
    IN  SubSeq(s, i + 1, stop - 1)

ClauseKey(kw) ==
    CASE kw = "WHERE" -> "where" [] kw = "GROUP BY" -> "group" [] kw = "ORDER BY" -> "order"
      [] kw = "OFFSET" -> "offset" [] kw = "LIMIT" -> "limit" [] OTHER -> "always"

ClausePresent(q, kw) == ClauseKey(kw) = "always" \/ ClauseKey(kw) \in DOMAIN q

QueryTable(q) == IF "table" \in DOMAIN q THEN q.table ELSE Table

\* C7: buildQuery emits SELECT, FROM, joins, WHERE, GROUP BY, ORDER BY, OFFSET, LIMIT in
\* that order, each clause present exactly when its key is (SELECT defaults to *, the
\* table to the bound table), aliases the table exactly when the join key is present,
\* returns the condition map's binds unchanged, and for the empty condition map returns
\* SELECT * FROM <prefix><table> with no binds.
C7_QueryClauseOrder ==
    (pc = "built" /\ op = "buildQuery") =>
        /\ \A i \in DOMAIN Keywords :
              Occurrences(sql, Keywords[i]) = IF ClausePresent(query, Keywords[i]) THEN 1 ELSE 0
        /\ \A i, j \in DOMAIN Keywords :
              (i < j /\ ClausePresent(query, Keywords[i]) /\ ClausePresent(query, Keywords[j]))
                 => FirstPosition(sql, Keywords[i]) < FirstPosition(sql, Keywords[j])
        /\ FirstPosition(sql, "SELECT") = 1
        /\ Segment(sql, "SELECT") = <<IF "select" \in DOMAIN query THEN query.select ELSE "*">>
        /\ Segment(sql, "FROM") =
              <<Prefix \o QueryTable(query)>>
                 \o (IF "join" \in DOMAIN query THEN <<"AS", "a">> \o query.join ELSE <<>>)
        /\ "where" \in DOMAIN query => Segment(sql, "WHERE") = query.where
        /\ "group" \in DOMAIN query => Segment(sql, "GROUP BY") = <<query.group>>
        /\ "order" \in DOMAIN query => Segment(sql, "ORDER BY") = <<query.order>>
        /\ "offset" \in DOMAIN query => Segment(sql, "OFFSET") = <<ToString(query.offset)>>
        /\ "limit" \in DOMAIN query => Segment(sql, "LIMIT") = <<ToString(query.limit)>>
        /\ binds = IF "binds" \in DOMAIN query THEN query.binds ELSE <<>>
        /\ query = EmptyMap => (sql = <<"SELECT", "*", "FROM", "p_users">> /\ binds = <<>>)

\* a query with every clause, two joins and two binds has been built
C7_Witness ==
    /\ pc = "built" /\ op = "buildQuery"
    /\ DOMAIN query = {"select", "table", "join", "where", "group", "order", "offset",
                       "limit", "binds"}
    /\ Len(query.join) = 2 /\ Len(binds) = 2
    /\ FirstPosition(sql, "OFFSET") < FirstPosition(sql, "LIMIT")

\* number of binds one SET assignment contributes, and the binds themselves
SetBinds(v) == IF IsExpr(v) THEN v.args ELSE <<v>>

RECURSIVE SetOffset(_, _, _)
SetOffset(d, ord, i) ==
    IF i <= 1 THEN 0 ELSE SetOffset(d, ord, i - 1) + Len(SetBinds(d[ord[i - 1]]))

SetClause(s) == SubSeq(s, FirstPosition(s, "SET") + 1, FirstPosition(s, "WHERE") - 1)

QueryBinds(q) == IF "binds" \in DOMAIN q THEN q.binds ELSE <<>>

\* C5: buildUpdate's bind list is the SET-clause binds, in the order the SET assignments
\* are emitted (the value of a plain entry, the args of an expression entry in their
\* own order), followed by the condition map's binds in caller-given order; and the SET
\* clause has as many ? as SET-clause binds when every expression has as many ? as args.
C5_UpdateBindOrder ==
    (pc = "built" /\ op = "buildUpdate") =>
        LET n == SetOffset(data, iter, Len(iter) + 1)
        IN  /\ SelectSeq(SetClause(sql), LAMBDA t : t \in DataColumns) = iter
            /\ \A i \in DOMAIN iter :
                  SubSeq(binds, SetOffset(data, iter, i) + 1, SetOffset(data, iter, i + 1))
                     = SetBinds(data[iter[i]])
            /\ Len(binds) = n + Len(QueryBinds(query))
            /\ SubSeq(binds, n + 1, Len(binds)) = QueryBinds(query)
            /\ (\A k \in DOMAIN data :
                   IsExpr(data[k]) => Occurrences(data[k].expr, "?") = Len(data[k].args))
                  => Occurrences(SetClause(sql), "?") = n

\* an update with a plain entry or expression first, a two-bind expression, and
\* condition binds has been built
C5_Witness ==
    /\ pc = "built" /\ op = "buildUpdate"
    /\ Len(iter) = 2 /\ IsExpr(data["qty"]) /\ IsExpr(data["price"])
    /\ Len(data["price"].args) = 1
    /\ Len(QueryBinds(query)) = 2
    /\ Len(binds) = 5

\* C8: buildBatchInsert emits one parenthesized group of |C| placeholders per row and
\* |R|*|C| binds, bind (i-1)*|C|+j being row i's value at column C[j] (nil when the row
\* lacks the key); keys outside C add no column, no placeholder and no bind.
C8_BatchInsertShape ==
    (pc = "built" /\ op = "buildBatchInsert") =>
        LET nc == Len(columns)
            nr == Len(rows)
            glen == IF nc = 0 THEN 2 ELSE 2 * nc + 1
            vpos == FirstPosition(sql, "VALUES")
            start(g) == vpos + 1 + (g - 1) * (glen + 1)
        IN  /\ Len(binds) = nr * nc
            /\ \A i \in 1..nr : \A j \in 1..nc :
                  binds[(i - 1) * nc + j] =
                     IF columns[j] \in DOMAIN rows[i] THEN rows[i][columns[j]] ELSE NilValue
            /\ Occurrences(sql, "?") = nr * nc
            /\ Len(sql) = vpos + (IF nr = 0 THEN 0 ELSE nr * (glen + 1) - 1)
            /\ \A g \in 1..nr :
                  /\ sql[start(g)] = "(" /\ sql[start(g) + glen - 1] = ")"
                  /\ Occurrences(SubSeq(sql, start(g), start(g) + glen - 1), "?") = nc
                  /\ g < nr => sql[start(g) + glen] = ","
            /\ SelectSeq(SubSeq(sql, 1, vpos - 1), LAMBDA t : t \in RowKeys) = columns

\* two rows under two columns were built, one row lacking a column and holding an
\* extra key
C8_Witness ==
    /\ pc = "built" /\ op = "buildBatchInsert"
    /\ Len(rows) = 2 /\ columns = <<"b", "a">>
    /\ DOMAIN rows[1] = {"a", "x"} /\ DOMAIN rows[2] = {"a", "b"}
    /\ binds = <<NilValue, Scalar(11), Scalar(22), Scalar(21)>>

-----------------------------------------------------------------------------
(* Properties of the operations and of DoTransactions *)

SingleOps == {"Insert", "BatchInsert", "Update", "Delete", "Count", "FindOne", "Find", "FindAll"}
ReadOps == {"Count", "FindOne", "Find", "FindAll"}

Last(s) == s[Len(s)]
Failed == execs # <<>> /\ Last(execs).err # Nil

\* C3 (as claimed): a failure of a single-statement operation, other than no-rows on a
\* read, is logged once under the operation's tag and returned unchanged; no-rows on a
\* read is returned and not logged.
C3_FailureLoggedAndReturned ==
    (pc = "done" /\ op \in SingleOps) =>
        LET e == execs[1].err
        IN  /\ ret = e
            /\ (e # Nil /\ ~(op \in ReadOps /\ e = ErrNoRows)) => log = <<LogError(op, e)>>
            /\ (op \in ReadOps /\ e = ErrNoRows) => log = <<>>

\* the expansion of a statement, stated position by position
Rank(s, i) == Cardinality({j \in 1..i : s[j] = "?"})
IsSliceAt(b, k) == k \in DOMAIN b /\ b[k].kind = "slice"
NPlaceholders(n) == [k \in 1..(2 * n - 1) |-> IF k % 2 = 1 THEN "?" ELSE ","]
ExpectedSql(s, b) ==
    Flatten([i \in 1..Len(s) |->
               IF s[i] = "?" /\ IsSliceAt(b, Rank(s, i))
               THEN NPlaceholders(Len(b[Rank(s, i)].items))
               ELSE <<s[i]>>])
ExpectedArgs(b) ==
    Flatten([i \in 1..Len(b) |->
               IF b[i].kind = "slice"
               THEN [k \in 1..Len(b[i].items) |-> Scalar(b[i].items[k])]
               ELSE <<b[i]>>])
ExpandedOnce(r) ==
    /\ r.nIn = 1
    /\ r.xsql = ExpectedSql(r.sql, r.binds)
    /\ r.xargs = ExpectedArgs(r.binds)
    /\ Occurrences(r.sql, "?") = Len(r.binds) => Occurrences(r.xsql, "?") = Len(r.xargs)
    /\ \A i \in DOMAIN r.xargs : r.xargs[i].kind # "slice"
HandedAsBuilt(r) == r.nIn = 0 /\ r.xsql = r.sql /\ r.xargs = r.binds

InsertTags == {"Insert", "BatchInsert", "insert", "batchInsert"}

\* C6 (as claimed): every statement except inserts and batch inserts, FindAll's
\* included, is expanded exactly once between the builder and the driver.
C6_ExpandedExceptInserts ==
    \A i \in DOMAIN execs :
        IF execs[i].tag \in InsertTags THEN HandedAsBuilt(execs[i]) ELSE ExpandedOnce(execs[i])

\* C6 (amended): Update, Delete, Count, FindOne, Find and the update and delete entries
\* of DoTransactions are expanded exactly once: a ? bound to a sequence of N elements
\* becomes N placeholders and N binds at that position, everything else is unchanged and
\* in order.  Inserts, batch inserts and FindAll hand over the built statement as it is,
\* and FindAll's bind list is empty.
C6_ExpandedExceptInsertsAndFindAll ==
    \A i \in DOMAIN execs :
        /\ execs[i].tag \in InsertTags \cup {"FindAll"} => HandedAsBuilt(execs[i])
        /\ execs[i].tag \notin InsertTags \cup {"FindAll"} => ExpandedOnce(execs[i])
        /\ execs[i].tag = "FindAll" => execs[i].binds = <<>>

\* the update entry of a transaction ran with its IN-sequence expanded, and so did a
\* single Update with two sequences
C6_Witness ==
    \/ /\ op = "DoTransactions"
       /\ \E i \in DOMAIN execs :
            /\ execs[i].tag = "update"
            /\ execs[i].binds = <<Scalar(1), Slice(<<41, 42>>)>>
            /\ execs[i].xargs = <<Scalar(1), Scalar(41), Scalar(42)>>
            /\ Occurrences(execs[i].xsql, "?") = 3
    \/ /\ op = "Find" /\ pc = "done"
       /\ Len(execs[1].binds) = 2 /\ Len(execs[1].xargs) = 4

Began == op = "DoTransactions" /\ tx # "none"
Left == pc \in {"returned", "panicked"}

\* C1 (as claimed): once DoTransactions returns from a batch of recognized tags, either
\* every operation succeeded, the transaction was committed, nil was returned and all
\* effects are visible, or some operation failed, the transaction was rolled back, an
\* error was returned and no effect is visible.
C1_AllOrNothing ==
    (Began /\ pc = "returned" /\ DOMAIN batch # {} /\ DOMAIN batch \subseteq KnownTags) =>
        \/ /\ visible = DOMAIN batch
           /\ ~Failed /\ tx = "committed" /\ ret = Nil
        \/ /\ visible = {}
           /\ Failed /\ tx = "rolledback" /\ ret # Nil

\* C2: the first failing operation is the last statement executed; no entry is executed
\* twice; the transaction is rolled back and never committed; the error returned is that
\* operation's error, logged once by DoTransactions.
C2_FirstFailureAborts ==
    op = "DoTransactions" =>
        /\ \A i \in 1..(Len(execs) - 1) : execs[i].err = Nil
        /\ \A i, j \in DOMAIN execs : execs[i].tag = execs[j].tag => i = j
        /\ Failed =>
              /\ pc \in {"tx", "returned"}
              /\ tx \in {"open", "rolledback"}
              /\ visible = {}
              /\ err = Last(execs).err
        /\ (Failed /\ pc = "returned") =>
              /\ tx = "rolledback"
              /\ ret = Last(execs).err
              /\ log = <<LogError("DoTransactions", Last(execs).err)>>

\* an insert succeeded, the update after it failed, a third entry was never visited
C2_Witness ==
    /\ op = "DoTransactions" /\ pc = "returned"
    /\ Len(execs) = 2 /\ execs[1].tag = "insert" /\ execs[1].err = Nil
    /\ execs[2].tag = "update" /\ execs[2].err = ErrOf("update")
    /\ todo = {"delete"}
    /\ ret = ErrOf("update") /\ tx = "rolledback"

\* C4 (as claimed): an entry with an unrecognized tag executes nothing, raises nothing and
\* does not stop the loop; a batch of unrecognized tags only ends in Commit, nil returned.
C4_UnknownTagSkipped ==
    op = "DoTransactions" =>
        /\ \A i \in DOMAIN execs : execs[i].tag \in KnownTags
        /\ (cur \in Tags \ KnownTags) => pc # "panicked"
        /\ (Began /\ Left /\ DOMAIN batch # {} /\ DOMAIN batch \cap KnownTags = {}) =>
              /\ pc = "returned" /\ tx \in {"committed", "commitFailed"} /\ ret = Nil

\* C9 (as claimed): once Begin has succeeded, control leaves DoTransactions only after
\* Commit or Rollback has been called.
C9_TransactionFinished ==
    (Began /\ Left) => tx \in {"committed", "commitFailed", "rolledback"}

\* C10 (as claimed): DoTransactions returns nil only if Commit succeeded; when every
\* operation succeeded and Commit failed, the caller gets a non-nil error.
C10_NilOnlyIfCommitted ==
    /\ (Began /\ pc = "returned" /\ execs # <<>> /\ ret = Nil) => tx = "committed"
    /\ (Began /\ pc = "returned" /\ execs # <<>> /\ tx = "commitFailed") => ret # Nil

====
